---- MODULE Spec2Model ----
(***************************************************************************)
(* A model of gssnng/score_funs.py: the gene-set scoring functions, the    *)
(* extractor expr_format, the dispatcher method_selector and the mode      *)
(* combiner scorefun.                                                      *)
(*                                                                         *)
(* Numbers.  The code computes with numpy doubles.  The model computes the *)
(* same expressions over exact reals extended with the IEEE specials the   *)
(* code can produce (inf, nan).  A finite value is a finite sum of terms   *)
(* q * u, q a non-zero rational and u one of the units                     *)
(*     sqrt(r)   (r square-free; sqrt(1) is the unit of the rationals),    *)
(*     1/c, c    (c = Gaussian.ppf(3/4), the scale constant of             *)
(*                statsmodels.robust.scale.mad),                           *)
(* which is closed under every operation the code applies.  Rounding of    *)
(* doubles is not modelled.                                                *)
(*                                                                         *)
(* Python outcomes.  A call either returns a value or raises; an outcome   *)
(* is a record [exc, val] with exc = "none" for a normal return.           *)
(***************************************************************************)
EXTENDS Integers, Sequences, FiniteSets, TLC

\* ------------------------------------------------------------------ bounds
\* Largest entry of a table column.
MaxVal == 2
\* Longest gene list handed to the extractor.
MaxLen == 3
\* Largest rank-overlap depth (rbo_depth, limit).
MaxLimit == 1

\* Gene identifiers.  "D" never occurs in a table of the scoring runs.
Genes == {"A", "B", "C"}
AllGenes == Genes \cup {"D"}

\* --------------------------------------------------------------- rationals
Abs(n) == IF n < 0 THEN -n ELSE n

RECURSIVE GCD(_, _)
GCD(a, b) == IF b = 0 THEN a ELSE GCD(b, a % b)

\* The rational n/d (d # 0) in lowest terms with a positive denominator.
Rat(n, d) ==
  LET g == GCD(Abs(n), Abs(d))
      s == IF d < 0 THEN -1 ELSE 1
  IN  <<(s * n) \div g, (s * d) \div g>>

RInt(n) == <<n, 1>>
RAdd(p, q) == Rat(p[1] * q[2] + q[1] * p[2], p[2] * q[2])
RSub(p, q) == Rat(p[1] * q[2] - q[1] * p[2], p[2] * q[2])
RMul(p, q) == Rat(p[1] * q[1], p[2] * q[2])
\* q # 0
RDiv(p, q) == Rat(p[1] * q[2], p[2] * q[1])
RAbs(p) == <<Abs(p[1]), p[2]>>
RLeq(p, q) == p[1] * q[2] <= q[1] * p[2]

\* ------------------------------------------------------------------ values
UnitOne == [b |-> "sqrt", r |-> 1]
UnitSqrt(r) == [b |-> "sqrt", r |-> r]
UnitInvC == [b |-> "invc", r |-> 1]
UnitC == [b |-> "c", r |-> 1]

Fin(terms) == [k |-> "fin", t |-> terms, s |-> <<>>]
NaN == [k |-> "nan", t |-> {}, s |-> <<>>]
Inf == [k |-> "inf", t |-> {}, s |-> <<>>]
\* A Python str, as the sequence of its characters.
Str(chars) == [k |-> "str", t |-> {}, s |-> chars]

Zero == Fin({})
Term(q, u) == IF q[1] = 0 THEN Zero ELSE Fin({[u |-> u, q |-> q]})
FromRat(q) == Term(q, UnitOne)
FromInt(n) == FromRat(RInt(n))

IsNum(v) == v.k \in {"fin", "inf", "nan"}
IsZero(v) == v.k = "fin" /\ v.t = {}

Units(v) == {tm.u : tm \in v.t}
Coef(v, u) == IF u \in Units(v) THEN (CHOOSE tm \in v.t : tm.u = u).q ELSE RInt(0)

\* a + b of two floats: nan absorbs, then inf (the code never makes -inf).
NumAdd(a, b) ==
  IF a.k = "nan" \/ b.k = "nan" THEN NaN
  ELSE IF a.k = "inf" \/ b.k = "inf" THEN Inf
  ELSE LET us == Units(a) \cup Units(b)
           sum(u) == RAdd(Coef(a, u), Coef(b, u))
       IN  Fin({[u |-> u, q |-> sum(u)] : u \in {w \in us : sum(w)[1] # 0}})

\* q * v for a rational q > 0.
NumScale(q, v) ==
  IF v.k # "fin" THEN v
  ELSE Fin({[u |-> tm.u, q |-> RMul(q, tm.q)] : tm \in v.t})

RECURSIVE NumSum(_)
NumSum(vs) == IF vs = <<>> THEN Zero ELSE NumAdd(vs[1], NumSum(Tail(vs)))

\* The square root of a rational q >= 0: sqrt(a/b) = sqrt(a*b)/b, and
\* sqrt(K) = s * sqrt(r) with r square-free.
NumSqrt(q) ==
  IF q[1] = 0 THEN Zero
  ELSE LET K == q[1] * q[2]
           s == CHOOSE s \in 1..K :
                  /\ K % (s * s) = 0
                  /\ \A t \in (s + 1)..K : K % (t * t) # 0
       IN  Term(Rat(s, q[2]), UnitSqrt(K \div (s * s)))

\* The reciprocal of a single unit, as a rational times a unit.
UnitInverse(u) ==
  IF u.b = "sqrt" THEN [q |-> Rat(1, u.r), u |-> u]
  ELSE IF u.b = "invc" THEN [q |-> RInt(1), u |-> UnitC]
  ELSE [q |-> RInt(1), u |-> UnitInvC]

\* The rational a finite value with no irrational part stands for.
RatOf(v) == Coef(v, UnitOne)

\* |a - b| of two floats that hold rationals (or nan).
NumAbsSub(a, b) ==
  IF a.k = "nan" \/ b.k = "nan" THEN NaN
  ELSE FromRat(RAbs(RSub(RatOf(a), RatOf(b))))

\* num / den of numpy floats, num a non-negative rational (or nan) and den
\* a dispersion (zero, one term, or nan): x/0 is inf and 0/0 is nan, with a
\* RuntimeWarning and no exception.
NumDiv(num, den) ==
  IF num.k = "nan" \/ den.k = "nan" THEN NaN
  ELSE IF IsZero(den) THEN (IF IsZero(num) THEN NaN ELSE Inf)
  ELSE LET tm == CHOOSE tm \in den.t : TRUE
           inv == UnitInverse(tm.u)
       IN  Term(RMul(RDiv(RatOf(num), tm.q), inv.q), inv.u)

\* a <= b for floats that are inf or non-negative multiples of one unit.
NumLeq(a, b) ==
  IF b.k = "inf" THEN TRUE
  ELSE IF a.k = "inf" THEN FALSE
  ELSE \A u \in Units(a) \cup Units(b) : RLeq(Coef(a, u), Coef(b, u))

RECURSIVE Insert(_, _)
Insert(v, sorted) ==
  IF sorted = <<>> THEN <<v>>
  ELSE IF NumLeq(v, sorted[1]) THEN <<v>> \o sorted
  ELSE <<sorted[1]>> \o Insert(v, Tail(sorted))

RECURSIVE SortNum(_)
SortNum(vs) == IF vs = <<>> THEN <<>> ELSE Insert(vs[1], SortNum(Tail(vs)))

\* ------------------------------------------------- statistics primitives
\* Each takes a sequence of floats, as numpy takes an array-like.
Floats(xs) == [i \in 1..Len(xs) |-> FromInt(xs[i])]

np_sum(vs) == NumSum(vs)

\* Of an empty array: nan (RuntimeWarning: Mean of empty slice).
np_mean(vs) ==
  IF vs = <<>> THEN NaN ELSE NumScale(Rat(1, Len(vs)), NumSum(vs))

\* nan for an empty array and for an array that holds a nan.
np_median(vs) ==
  IF vs = <<>> \/ (\E i \in 1..Len(vs) : vs[i].k = "nan") THEN NaN
  ELSE LET s == SortNum(vs)
           n == Len(vs)
       IN  IF n % 2 = 1 THEN s[(n + 1) \div 2]
           ELSE NumScale(Rat(1, 2), NumAdd(s[n \div 2], s[n \div 2 + 1]))

\* sqrt(mean(|x - mean(x)|^2)), ddof = 0; of an empty array: nan.
np_std(vs) ==
  IF vs = <<>> THEN NaN
  ELSE LET m == RatOf(np_mean(vs))
           dev(i) == RSub(RatOf(vs[i]), m)
           sq == [i \in 1..Len(vs) |-> FromRat(RMul(dev(i), dev(i)))]
       IN  NumSqrt(RatOf(np_mean(sq)))

\* statsmodels.robust.scale.mad(a): median(|a - median(a)| / c) with
\* c = Gaussian.ppf(3/4); of an empty array: nan.
mad(vs) ==
  IF vs = <<>> THEN NaN
  ELSE LET center == np_median(vs)
           err == [i \in 1..Len(vs) |->
                     NumDiv(NumAbsSub(vs[i], center), Term(RInt(1), UnitC))]
       IN  np_median(err)

\* ----------------------------------------------------------- Python values
Tuple(items) == [k |-> "tuple", t |-> {}, s |-> items]
PyNone == [k |-> "none", t |-> {}, s |-> <<>>]

\* v[i], i counted from 0 as in Python, of a tuple or a str.
PyGetItem(v, i) ==
  CASE v.k = "tuple" -> v.s[i + 1]
    [] v.k = "str" -> Str(<<v.s[i + 1]>>)

\* a + b: float addition, or str concatenation.
PyAdd(a, b) ==
  CASE IsNum(a) /\ IsNum(b) -> NumAdd(a, b)
    [] a.k = "str" /\ b.k = "str" -> Str(a.s \o b.s)

Ret(v) == [exc |-> "none", val |-> v]
Raise(e) == [exc |-> e, val |-> PyNone]

\* A pandas Series: labels in order, and the entry of each label.
Series(index, v) == [index |-> index, v |-> v]
SeriesVals(ser) == [i \in 1..Len(ser.index) |-> FromInt(ser.v[ser.index[i]])]
Range(seq) == {seq[i] : i \in 1..Len(seq)}

\* The columns of the table x.
counts(x) == Series(x.index, x.counts)
uprank(x) == Series(x.index, x.uprank)
dnrank(x) == Series(x.index, x.dnrank)

\* ------------------------------------------------------- scoring methods
summed_up(su) ==
  LET mad_su == mad(Floats(su))
      score == np_sum(Floats(su))
  IN  Tuple(<<score, mad_su>>)

median_score(su) ==
  LET cnts_med == np_median(Floats(su))
      mad_su == mad(Floats(su))
  IN  Tuple(<<cnts_med, mad_su>>)

average_score(su) ==
  LET cnts_mean == np_mean(Floats(su))
      std_su == np_std(Floats(su))
  IN  Tuple(<<cnts_mean, std_su>>)

\* Mutant: the dispersion is taken over the extracted values, not the column.
mean_z_su_dispersion(exprdat, su) ==
  LET vals_mean == np_mean(SeriesVals(exprdat))
      vals_std == np_std(Floats(su))
      centered == [i \in 1..Len(su) |->
                     NumDiv(NumAbsSub(FromInt(su[i]), vals_mean), vals_std)]
      score == np_mean(centered)
  IN  Tuple(<<score, vals_std>>)

mean_z(exprdat, su) ==
  LET vals_mean == np_mean(SeriesVals(exprdat))
      vals_std == np_std(SeriesVals(exprdat))
      centered == [i \in 1..Len(su) |->
                     NumDiv(NumAbsSub(FromInt(su[i]), vals_mean), vals_std)]
      score == np_mean(centered)
  IN  Tuple(<<score, vals_std>>)

robust_std(exprdat, su) ==
  LET cnts_med == np_median(SeriesVals(exprdat))
      mad_su == mad(SeriesVals(exprdat))
      centered_cnts == [i \in 1..Len(su) |->
                          NumDiv(NumAbsSub(FromInt(su[i]), cnts_med), mad_su)]
      score == np_median(centered_cnts)
  IN  Tuple(<<score, mad_su>>)

\* y[0:(i+1)].index as a set: the labels of the first i+1 entries of y
\* (all of them when y is shorter).
PrefixIndex(y, i) ==
  {y.index[j] : j \in 1..(IF i + 1 < Len(y.index) THEN i + 1 ELSE Len(y.index))}

\* The loop of rank_biased_overlap from iteration i on, n = len(gs): the
\* prefix is scored first and the test i > limit comes after it.
RECURSIVE rbo_loop(_, _, _, _, _, _)
rbo_loop(y, gs, limit, i, n, rbo_score) ==
  IF i >= n THEN rbo_score
  ELSE LET subset == PrefixIndex(y, i)
           added == rbo_score + Cardinality(subset \cap gs)
       IN  IF i > limit THEN added
           ELSE rbo_loop(y, gs, limit, i + 1, n, added)

\* Mutant: the loop stops one prefix earlier (break on i >= limit).
rank_biased_overlap_stops_early(x, su, gs, limit) ==
  LET rbo_score == rbo_loop(su, gs, limit - 1, 0, Cardinality(gs), 0)
      mad_up == mad(SeriesVals(su))
  IN  Tuple(<<FromInt(rbo_score), mad_up>>)

\* su is the Series of ranked values, gs the set of genes of the gene set.
rank_biased_overlap(x, su, gs, limit) ==
  LET rbo_score == rbo_loop(su, gs, limit, 0, Cardinality(gs), 0)
      mad_up == mad(SeriesVals(su))
  IN  Tuple(<<FromInt(rbo_score), mad_up>>)

\* The normalisation helper of gssnng.util: a float in [0, 1], monotonic in
\* score; 'standard' scales the mean rank by the library size, 'theoretical'
\* by the attainable bounds of the mean rank.
normalisation(norm_method, library_len, score_list, score, sig_len) ==
  LET clamp(q) == IF q[1] < 0 THEN RInt(0)
                  ELSE IF RLeq(RInt(1), q) THEN RInt(1) ELSE q
      low_bound == Rat(sig_len + 1, 2)
      upper_bound == Rat(2 * library_len - sig_len + 1, 2)
      width == RSub(upper_bound, low_bound)
  IN  IF score.k = "nan" THEN NaN
      ELSE IF norm_method = "standard"
        THEN (IF library_len = 0 THEN NaN
              ELSE FromRat(clamp(RDiv(RatOf(score), RInt(library_len)))))
      ELSE (IF width[1] = 0 THEN NaN
            ELSE FromRat(clamp(RDiv(RSub(RatOf(score), low_bound), width))))

\* x is a Series here (method_selector passes exprdat).
singscore(x, su, sig_len, norm_method) ==
  LET score_up == np_mean(Floats(su))
      norm_up0 == normalisation(norm_method, Len(x.index), su, score_up, sig_len)
      norm_up == IF norm_up0.k = "nan" THEN NaN
                 ELSE FromRat(RSub(RatOf(norm_up0), Rat(1, 2)))
      mad_up == mad(Floats(su))
  IN  Tuple(<<norm_up, mad_up>>)

\* ------------------------------------------------------------- extractor
\* The loop of expr_format from position i of geneset_genes on.
RECURSIVE expr_format_loop(_, _, _, _, _, _)
expr_format_loop(x, exprdat, geneset_genes, i, su, sig_len_up) ==
  IF i > Len(geneset_genes)
    THEN [su |-> su, sig_len_up |-> sig_len_up, geneset_genes |-> geneset_genes]
  ELSE LET j == geneset_genes[i]
       IN  IF j \in Range(x.index)
             THEN expr_format_loop(x, exprdat, geneset_genes, i + 1,
                                   Append(su, exprdat.v[j]), sig_len_up)
           ELSE expr_format_loop(x, exprdat, geneset_genes, i + 1,
                                 su, sig_len_up - 1)

\* Mutant: the matched count is not reduced for absent genes.
expr_format_keeps_len(x, exprdat, geneset_genes) ==
  [expr_format_loop(x, exprdat, geneset_genes, 1, <<>>, Len(geneset_genes))
     EXCEPT !.sig_len_up = Len(geneset_genes)]

\* Mutant: the loop consumes the caller's list (while genes: j = genes.pop(0)).
expr_format_consumes(x, exprdat, geneset_genes) ==
  [expr_format_loop(x, exprdat, geneset_genes, 1, <<>>, Len(geneset_genes))
     EXCEPT !.geneset_genes = <<>>]

\* Returns (su, sig_len_up); geneset_genes is the caller's list object as
\* the call leaves it (the loop only reads it).
expr_format(x, exprdat, geneset_genes) ==
  expr_format_loop(x, exprdat, geneset_genes, 1, <<>>, Len(geneset_genes))

\* -------------------------------------------------------- method selector
Methods == {"singscore", "robust_std", "summed_up", "median_score",
            "average_score", "mean_z", "rank_biased_overlap"}

\* How many positional arguments each scoring function accepts (its def).
Accepts(fn) ==
  CASE fn \in {"summed_up", "median_score", "average_score"} -> {1}
    [] fn \in {"mean_z", "robust_std"} -> {2}
    [] fn = "rank_biased_overlap" -> {3, 4}
    [] fn = "singscore" -> {4}

\* fn(*args): TypeError, before the body runs, unless fn accepts that many
\* arguments; result is what the body returns once they are bound.
PyCall(fn, args, result) ==
  IF Len(args) \in Accepts(fn) THEN Ret(result) ELSE Raise("TypeError")

ERROR == Str(<<"E", "R", "R", "O", "R">>)

\* out: what the call returns or raises; geneset_genes: the list as left.
method_selector(gs, x, exprdat, geneset_genes, method, method_params) ==
  LET ef == expr_format(x, exprdat, geneset_genes)
      su == ef.su
      sig_len == ef.sig_len_up
      res0 ==
        IF method = "singscore"
          THEN PyCall("singscore",
                      <<exprdat, su, sig_len, method_params.normalization>>,
                      singscore(exprdat, su, sig_len, method_params.normalization))
        ELSE IF method = "robust_std"
          THEN PyCall("robust_std", <<exprdat, su>>, robust_std(exprdat, su))
        ELSE IF method = "summed_up"
          THEN PyCall("summed_up", <<su>>, summed_up(su))
        ELSE IF method = "median_score"
          THEN PyCall("median_score", <<exprdat, su>>, median_score(su))
        ELSE IF method = "average_score"
          THEN PyCall("average_score", <<exprdat, su>>, average_score(su))
        ELSE IF method = "mean_z"
          THEN PyCall("mean_z", <<exprdat, su>>, mean_z(exprdat, su))
        ELSE IF method = "rank_biased_overlap"
          THEN PyCall("rank_biased_overlap",
                      <<exprdat, su, gs, gs.mode, method_params.rbo_depth>>,
                      PyNone)
        ELSE Ret(ERROR)
  IN  [out |-> res0, geneset_genes |-> ef.geneset_genes]

\* ----------------------------------------------------------- mode combiner
\* dict(barcode=..., name=..., mode=..., score=..., var=...)
dict(barcode, name, mode, score, var) ==
  [barcode |-> barcode, name |-> name, mode |-> mode, score |-> score, var |-> var]

\* One entry of the log of method_selector calls a scorefun call makes.
CallEntry(exprdat, geneset_genes, ret) ==
  [exprdat |-> exprdat, geneset_genes |-> geneset_genes, ret |-> ret]

\* The arguments a branch of scorefun gives one method_selector call: the
\* values source and the gene list of gs (by its attribute name).
Sel(exprdat, which) == [exprdat |-> exprdat, which |-> which]

\* Mutant: the DN branch on ranks reads uprank.
branch_dn_reads_uprank(gs, x, ranked) ==
  IF gs.mode = "UP" /\ ranked = "False"
    THEN [taken |-> TRUE, sum |-> FALSE, sels |-> <<Sel(counts(x), "genes_up")>>]
  ELSE IF gs.mode = "DN" /\ ranked = "False"
    THEN [taken |-> TRUE, sum |-> FALSE, sels |-> <<Sel(counts(x), "genes_dn")>>]
  ELSE IF gs.mode = "BOTH" /\ ranked = "False"
    THEN [taken |-> TRUE, sum |-> TRUE,
          sels |-> <<Sel(counts(x), "genes_up"), Sel(counts(x), "genes_dn")>>]
  ELSE IF gs.mode = "UP" /\ ranked = "True"
    THEN [taken |-> TRUE, sum |-> FALSE, sels |-> <<Sel(uprank(x), "genes_up")>>]
  ELSE IF gs.mode = "DN" /\ ranked = "True"
    THEN [taken |-> TRUE, sum |-> FALSE, sels |-> <<Sel(uprank(x), "genes_dn")>>]
  ELSE IF gs.mode = "BOTH" /\ ranked = "True"
    THEN [taken |-> TRUE, sum |-> TRUE,
          sels |-> <<Sel(uprank(x), "genes_up"), Sel(dnrank(x), "genes_dn")>>]
  ELSE [taken |-> FALSE, sum |-> FALSE, sels |-> <<>>]

\* Mutant: the last branch is a plain else.
branch_else(gs, x, ranked) ==
  IF gs.mode = "UP" /\ ranked = "False"
    THEN [taken |-> TRUE, sum |-> FALSE, sels |-> <<Sel(counts(x), "genes_up")>>]
  ELSE IF gs.mode = "DN" /\ ranked = "False"
    THEN [taken |-> TRUE, sum |-> FALSE, sels |-> <<Sel(counts(x), "genes_dn")>>]
  ELSE IF gs.mode = "BOTH" /\ ranked = "False"
    THEN [taken |-> TRUE, sum |-> TRUE,
          sels |-> <<Sel(counts(x), "genes_up"), Sel(counts(x), "genes_dn")>>]
  ELSE IF gs.mode = "UP" /\ ranked = "True"
    THEN [taken |-> TRUE, sum |-> FALSE, sels |-> <<Sel(uprank(x), "genes_up")>>]
  ELSE IF gs.mode = "DN" /\ ranked = "True"
    THEN [taken |-> TRUE, sum |-> FALSE, sels |-> <<Sel(dnrank(x), "genes_dn")>>]
  ELSE [taken |-> TRUE, sum |-> TRUE,
        sels |-> <<Sel(uprank(x), "genes_up"), Sel(dnrank(x), "genes_dn")>>]

\* The if/elif chain of scorefun: which branch is taken for gs.mode and
\* ranked ("True", "False", or another object), the method_selector calls
\* the branch makes, in order, and whether it sums two results (BOTH) or
\* passes one through (UP, DN).  No branch is taken otherwise.
branch(gs, x, ranked) ==
  IF gs.mode = "UP" /\ ranked = "False"
    THEN [taken |-> TRUE, sum |-> FALSE, sels |-> <<Sel(counts(x), "genes_up")>>]
  ELSE IF gs.mode = "DN" /\ ranked = "False"
    THEN [taken |-> TRUE, sum |-> FALSE, sels |-> <<Sel(counts(x), "genes_dn")>>]
  ELSE IF gs.mode = "BOTH" /\ ranked = "False"
    THEN [taken |-> TRUE, sum |-> TRUE,
          sels |-> <<Sel(counts(x), "genes_up"), Sel(counts(x), "genes_dn")>>]
  ELSE IF gs.mode = "UP" /\ ranked = "True"
    THEN [taken |-> TRUE, sum |-> FALSE, sels |-> <<Sel(uprank(x), "genes_up")>>]
  ELSE IF gs.mode = "DN" /\ ranked = "True"
    THEN [taken |-> TRUE, sum |-> FALSE, sels |-> <<Sel(dnrank(x), "genes_dn")>>]
  ELSE IF gs.mode = "BOTH" /\ ranked = "True"
    THEN [taken |-> TRUE, sum |-> TRUE,
          sels |-> <<Sel(uprank(x), "genes_up"), Sel(dnrank(x), "genes_dn")>>]
  ELSE [taken |-> FALSE, sum |-> FALSE, sels |-> <<>>]

\* The method_selector calls of the taken branch, made in order; a call
\* that raises ends scorefun, so no later call is made.  gs is the gene set
\* as the calls leave it, calls the log of the calls made.
RECURSIVE run_selectors(_, _, _, _, _, _)
RECURSIVE after_selector(_, _, _, _, _, _, _)
run_selectors(gs, x, sels, method, method_params, calls) ==
  IF sels = <<>> THEN [gs |-> gs, calls |-> calls]
  ELSE after_selector(gs, x, sels, method, method_params, calls,
                      method_selector(gs, x, Head(sels).exprdat, gs[Head(sels).which],
                                      method, method_params))

\* sel is what the call for Head(sels) gave.
after_selector(gs, x, sels, method, method_params, calls, sel) ==
  LET s == Head(sels)
      gs1 == [gs EXCEPT ![s.which] = sel.geneset_genes]
      calls1 == Append(calls, CallEntry(s.exprdat, gs[s.which], sel.out))
  IN  IF sel.out.exc # "none" THEN [gs |-> gs1, calls |-> calls1]
      ELSE run_selectors(gs1, x, Tail(sels), method, method_params, calls1)

\* res1 of a branch whose selector calls returned results: score and var
\* are elements 0 and 1 of the one result, or the sums of the two.
res1_of(gs, barcode, sum, results) ==
  IF sum
    THEN dict(barcode, gs.name, gs.mode,
              PyAdd(PyGetItem(results[1], 0), PyGetItem(results[2], 0)),
              PyAdd(PyGetItem(results[1], 1), PyGetItem(results[2], 1)))
  ELSE dict(barcode, gs.name, gs.mode,
            PyGetItem(results[1], 0), PyGetItem(results[1], 1))

\* The end of scorefun, b the branch taken and run its selector calls.
\* With no branch taken res1 is unbound at return(res1).
return_res1(gs, barcode, b, run) ==
  LET n == Len(run.calls)
      results == [i \in 1..n |-> run.calls[i].ret.val]
  IN  IF ~b.taken
        THEN [out |-> Raise("UnboundLocalError"), calls |-> <<>>, gs |-> gs]
      ELSE IF run.calls[n].ret.exc # "none"
        THEN [out |-> Raise(run.calls[n].ret.exc), calls |-> run.calls, gs |-> run.gs]
      ELSE [out |-> Ret(res1_of(gs, barcode, b.sum, results)),
            calls |-> run.calls, gs |-> run.gs]

\* out: the record returned or the exception raised; calls: the selector
\* calls made, in order; gs: the gene set as the call leaves it.
scorefun(gs, x, method, method_params, barcode, ranked) ==
  return_res1(gs, barcode, branch(gs, x, ranked),
              run_selectors(gs, x, branch(gs, x, ranked).sels, method, method_params, <<>>))

\* ------------------------------------------------------------ the inputs
GeneOrder == <<"A", "B", "C", "D">>
Modes == {"UP", "DN", "BOTH", "NONE"}
RankedFlags == {"False", "True", "None"}
MethodNames == Methods \cup {"unknown"}
Barcodes == {"cell1"}
ColumnNames == {"counts", "uprank", "dnrank"}
Column(tab, c) == Series(tab.index, tab[c])

IndexOf(P) == SelectSeq(GeneOrder, LAMBDA g : g \in P)

\* Rank columns as the upstream ranking makes them from the counts.
RankUp(P, c) == [g \in P |-> 1 + Cardinality({h \in P : c[h] < c[g]})]
RankDn(P, c) == [g \in P |-> 1 + Cardinality({h \in P : c[h] > c[g]})]

\* The tables of the scoring runs: any non-empty subset of Genes, any counts.
Tables ==
  {[index |-> IndexOf(P), counts |-> c, uprank |-> RankUp(P, c), dnrank |-> RankDn(P, c)] :
     <<P, c>> \in UNION {{<<Q, d>> : d \in [Q -> 0..MaxVal]} : Q \in SUBSET Genes \ {{}}}}

UpLists == {<<>>, <<"A">>, <<"B", "D", "A">>}
DnLists == {<<>>, <<"C">>, <<"C", "B">>}
GeneSets ==
  [name : {"sig"}, mode : Modes, genes_up : UpLists, genes_dn : DnLists]

ParamMaps ==
  {[normalization |-> "standard", rbo_depth |-> 0],
   [normalization |-> "theoretical", rbo_depth |-> MaxLimit]}

\* Sequences over S of length at most n, and those without repetition.
SeqsUpTo(S, n) == UNION {[1..m -> S] : m \in 0..n}
Distinct(seq) == \A i, j \in 1..Len(seq) : i # j => seq[i] # seq[j]

\* The ranked tables of the direct calls: the genes in rank order, uprank
\* the position, dnrank the position from the end, counts constant.
RankedTables ==
  {[index |-> idx,
    counts |-> [g \in Range(idx) |-> MaxVal],
    uprank |-> [g \in Range(idx) |-> CHOOSE i \in 1..Len(idx) : idx[i] = g],
    dnrank |-> [g \in Range(idx) |-> Len(idx) + 1 - (CHOOSE i \in 1..Len(idx) : idx[i] = g)]] :
     idx \in {q \in SeqsUpTo(AllGenes, Cardinality(AllGenes)) : q # <<>> /\ Distinct(q)}}

\* -------------------------------------------------------------- the state
VARIABLES
  x,              \* the expression/rank table the caller holds
  gs,             \* the gene set the caller holds
  method_params,  \* the method-parameter map the caller holds
  init,           \* the three inputs as they were before the first call
  last            \* the last call: its arguments and its outcome

vars == <<x, gs, method_params, init, last>>

NoCall == [op |-> "none"]

Init ==
  /\ x \in Tables
  /\ gs \in GeneSets
  /\ method_params \in ParamMaps
  /\ init = [x |-> x, gs |-> gs, method_params |-> method_params]
  /\ last = NoCall

\* The call has ended with r: the caller holds the outcome, and the gene
\* set is as the call left it.
Ended(method, ranked, barcode, r) ==
  /\ last' = [op |-> "scorefun", method |-> method, ranked |-> ranked,
              barcode |-> barcode, out |-> r.out, calls |-> r.calls]
  /\ gs' = r.gs
  /\ UNCHANGED <<x, method_params, init>>

\* scorefun(gs, x, method, method_params, barcode, ranked)
ScoreFun ==
  \E method \in MethodNames, ranked \in RankedFlags, barcode \in Barcodes :
    /\ last = NoCall
    /\ Ended(method, ranked, barcode,
             scorefun(gs, x, method, method_params, barcode, ranked))

\* The caller takes the outcome; the next call may begin.
Return ==
  /\ last # NoCall
  /\ last' = NoCall
  /\ UNCHANGED <<x, gs, method_params, init>>

Next == ScoreFun \/ Return

Spec == Init /\ [][Next]_vars

\* ---------------------------------------- direct calls of the functions
InitFun ==
  /\ x \in RankedTables
  /\ gs \in {g \in GeneSets : g.mode = "UP" /\ g.genes_up = <<"A">> /\ g.genes_dn = <<"C">>}
  /\ method_params \in {p \in ParamMaps : p.rbo_depth = 0}
  /\ init = [x |-> x, gs |-> gs, method_params |-> method_params]
  /\ last = NoCall

\* expr_format(x, exprdat, geneset_genes)
ExprFormat ==
  \E c \in ColumnNames, geneset_genes \in SeqsUpTo(AllGenes, MaxLen) :
    LET r == expr_format(x, Column(x, c), geneset_genes)
    IN  /\ last = NoCall
        /\ last' = [op |-> "expr_format", exprdat |-> Column(x, c),
                    geneset_genes |-> geneset_genes,
                    out |-> <<r.su, r.sig_len_up>>, left |-> r.geneset_genes]
        /\ UNCHANGED <<x, gs, method_params, init>>

\* method_selector(gs, x, exprdat, geneset_genes, method, method_params)
MethodSelector ==
  \E c \in ColumnNames, geneset_genes \in {gs.genes_up, gs.genes_dn},
     method \in MethodNames :
    LET r == method_selector(gs, x, Column(x, c), geneset_genes, method, method_params)
    IN  /\ last = NoCall
        /\ last' = [op |-> "method_selector", exprdat |-> Column(x, c),
                    geneset_genes |-> geneset_genes, method |-> method,
                    out |-> r.out]
        /\ UNCHANGED <<x, gs, method_params, init>>

\* rank_biased_overlap(x, su, gs, limit), su a rank column, gs a set of genes
RankBiasedOverlap ==
  \E c \in {"uprank", "dnrank"}, geneset \in SUBSET AllGenes, limit \in 0..MaxLimit :
    /\ last = NoCall
    /\ last' = [op |-> "rank_biased_overlap", su |-> Column(x, c),
                gs |-> geneset, limit |-> limit,
                out |-> rank_biased_overlap(x, Column(x, c), geneset, limit)]
    /\ UNCHANGED <<x, gs, method_params, init>>

NextFun == ExprFormat \/ MethodSelector \/ RankBiasedOverlap \/ Return

SpecFun == InitFun /\ [][NextFun]_vars

\* =============================================================== claims
Called == last.op = "scorefun"
ValidFlag == last.ranked \in {"False", "True"}
\* The outcome is a returned Score Result record.
IsScoreRecord(out) == out.exc = "none" /\ "score" \in DOMAIN out.val
IsFiniteNonZero(v) == v.k = "fin" /\ v.t # {}

\* The gene list and the value source scorefun is to use for one list.
ListFor(mode) == IF mode = "UP" THEN gs.genes_up ELSE gs.genes_dn
SourceFor(mode, ranked) ==
  IF ranked = "False" THEN counts(x)
  ELSE IF mode = "UP" THEN uprank(x) ELSE dnrank(x)

\* C1: for mode UP or DN and either ranked flag, scorefun makes exactly one
\* method_selector call, on the matching gene list and value source, and a
\* returned record carries elements 0 and 1 of that selector result as its
\* score and var; an exception of the selector is the outcome of scorefun.
C1_UpDnPassThrough ==
  (Called /\ gs.mode \in {"UP", "DN"} /\ ValidFlag) =>
    LET sel == method_selector(gs, x, SourceFor(gs.mode, last.ranked),
                               ListFor(gs.mode), last.method, method_params).out
    IN  /\ Len(last.calls) = 1
        /\ last.calls[1].exprdat = SourceFor(gs.mode, last.ranked)
        /\ last.calls[1].geneset_genes = ListFor(gs.mode)
        /\ last.calls[1].ret = sel
        /\ IF sel.exc = "none"
             THEN /\ IsScoreRecord(last.out)
                  /\ last.out.val.score = PyGetItem(sel.val, 0)
                  /\ last.out.val.var = PyGetItem(sel.val, 1)
                  /\ last.out.val.mode = gs.mode
           ELSE last.out = Raise(sel.exc)

\* A DN gene set scored on ranks: the record holds a finite non-zero score,
\* and the other list and the other rank column differ from the ones used.
C1_Witness ==
  /\ Called /\ gs.mode = "DN" /\ last.ranked = "True"
  /\ last.method = "mean_z"
  /\ IsScoreRecord(last.out)
  /\ IsFiniteNonZero(last.out.val.score) /\ IsFiniteNonZero(last.out.val.var)
  /\ uprank(x) # dnrank(x) /\ dnrank(x) # counts(x)
  /\ gs.genes_up # gs.genes_dn

\* C2 (as claimed): for mode BOTH and either ranked flag, scorefun makes two
\* method_selector calls, genes_up against the up values and genes_dn
\* against the down values, and returns a record whose score and var are
\* the sums of the two results' scores and dispersions.
C2_BothSums ==
  (Called /\ gs.mode = "BOTH" /\ ValidFlag) =>
    LET up == method_selector(gs, x, SourceFor("UP", last.ranked), gs.genes_up,
                              last.method, method_params).out
        dn == method_selector(gs, x, SourceFor("DN", last.ranked), gs.genes_dn,
                              last.method, method_params).out
    IN  /\ Len(last.calls) = 2
        /\ last.calls[1] = CallEntry(SourceFor("UP", last.ranked), gs.genes_up, up)
        /\ last.calls[2] = CallEntry(SourceFor("DN", last.ranked), gs.genes_dn, dn)
        /\ IsScoreRecord(last.out)
        /\ last.out.val.score = PyAdd(PyGetItem(up.val, 0), PyGetItem(dn.val, 0))
        /\ last.out.val.var = PyAdd(PyGetItem(up.val, 1), PyGetItem(dn.val, 1))

\* C3 (as claimed): with a method name that is none of the seven, every
\* selector call yields the error result and scorefun does not return a
\* Score Result record.
C3_UnknownMethodPropagated ==
  (Called /\ last.method \notin Methods /\ gs.mode \in {"UP", "DN", "BOTH"} /\ ValidFlag) =>
    /\ \A i \in 1..Len(last.calls) : last.calls[i].ret = Ret(ERROR)
    /\ ~IsScoreRecord(last.out)

\* C7 (as claimed): when the dispersion of the full value column is zero or
\* undefined and a gene of the list is in the table (so that a value is
\* divided by it), mean_z and robust_std do not hand the caller a score
\* built from that division: the call does not end in a Score Result record.
ColumnDispersion(method, exprdat) ==
  IF method = "mean_z" THEN np_std(SeriesVals(exprdat)) ELSE mad(SeriesVals(exprdat))

C7_DegenerateSurfaced ==
  (/\ Called /\ last.method \in {"mean_z", "robust_std"}
   /\ gs.mode \in {"UP", "DN"} /\ ValidFlag
   /\ last.calls[1].geneset_genes # <<>>
   /\ Range(last.calls[1].geneset_genes) \subseteq Range(x.index)
   /\ ~IsFiniteNonZero(ColumnDispersion(last.method, SourceFor(gs.mode, last.ranked)))) =>
    ~IsScoreRecord(last.out)

\* C8: a scoring call leaves the table, the gene set and the parameter map
\* as they were before the first call, and after any sequence of calls a
\* call returns what the same call returns on the untouched inputs.
C8_Pure ==
  /\ x = init.x /\ gs = init.gs /\ method_params = init.method_params
  /\ Called =>
       last.out = scorefun(init.gs, init.x, last.method, init.method_params,
                           last.barcode, last.ranked).out

\* A call that reads both gene lists (two selector calls, three genes
\* extracted) has returned a record.
C8_Witness ==
  /\ Called /\ gs.mode = "BOTH" /\ Len(last.calls) = 2
  /\ Len(gs.genes_up) = 3 /\ Len(gs.genes_dn) = 2
  /\ IsScoreRecord(last.out) /\ IsFiniteNonZero(last.out.val.score)

\* C9: scorefun returns a record only for mode UP, DN or BOTH with ranked
\* True or False; otherwise no selector call is made and the call fails
\* (res1 is unbound at the return).
C9_NoDefaultBranch ==
  Called =>
    /\ IsScoreRecord(last.out) => (gs.mode \in {"UP", "DN", "BOTH"} /\ ValidFlag)
    /\ ~(gs.mode \in {"UP", "DN", "BOTH"} /\ ValidFlag) =>
         (last.calls = <<>> /\ last.out = Raise("UnboundLocalError"))

\* A call with a valid mode and a flag that is neither True nor False.
C9_Witness ==
  /\ Called /\ gs.mode = "BOTH" /\ last.ranked = "None"
  /\ last.method = "summed_up" /\ last.out.exc = "UnboundLocalError"

\* C10: for mean_z and robust_std the var of a returned record is the
\* dispersion of the full value column, whatever the gene lists hold: that
\* dispersion for mode UP or DN, and twice the dispersion of the counts
\* column for mode BOTH with ranked false.
C10_DispersionOfColumn ==
  (Called /\ last.method \in {"mean_z", "robust_std"} /\ IsScoreRecord(last.out)) =>
    /\ gs.mode \in {"UP", "DN"} =>
         last.out.val.var =
           ColumnDispersion(last.method, SourceFor(gs.mode, last.ranked))
    /\ (gs.mode = "BOTH" /\ last.ranked = "False") =>
         last.out.val.var =
           NumScale(RInt(2), ColumnDispersion(last.method, counts(x)))

\* BOTH on counts with unequal gene lists, one of them with an absent gene,
\* and a finite non-zero var.
C10_Witness ==
  /\ Called /\ last.method = "robust_std" /\ gs.mode = "BOTH" /\ last.ranked = "False"
  /\ IsScoreRecord(last.out) /\ IsFiniteNonZero(last.out.val.var)
  /\ gs.genes_up = <<"B", "D", "A">> /\ gs.genes_dn = <<"C">>

\* ------------------------------------------------ claims on direct calls
\* C4 (as claimed): for each of the seven method names method_selector
\* extracts su and returns the (score, dispersion) pair of the matching
\* scoring function, called with the arguments that function takes.
C4_SelectorDispatch ==
  (last.op = "method_selector" /\ last.method \in Methods) =>
    LET ef == expr_format(x, last.exprdat, last.geneset_genes)
        m == last.method
    IN  /\ last.out.exc = "none"
        /\ m = "summed_up" => last.out.val = summed_up(ef.su)
        /\ m = "median_score" => last.out.val = median_score(ef.su)
        /\ m = "average_score" => last.out.val = average_score(ef.su)
        /\ m = "mean_z" => last.out.val = mean_z(last.exprdat, ef.su)
        /\ m = "robust_std" => last.out.val = robust_std(last.exprdat, ef.su)
        /\ m = "singscore" =>
             last.out.val = singscore(last.exprdat, ef.su, ef.sig_len_up,
                                      method_params.normalization)
        /\ m = "rank_biased_overlap" => last.out.val.k = "tuple"

\* The genes of a list that are in the table, in the order of the list.
Present(tab, geneset_genes) ==
  SelectSeq(geneset_genes, LAMBDA g : \E i \in 1..Len(tab.index) : tab.index[i] = g)

\* C5: for a gene list of which k identifiers are in the table's index,
\* expr_format returns matched_len = k and the k entries of exprdat of the
\* present genes, in the order of the gene list; for the empty list it
\* returns the empty sequence and 0.
C5_ExtractorCounts ==
  last.op = "expr_format" =>
    LET pres == Present(x, last.geneset_genes)
        k == Len(pres)
    IN  /\ last.out[2] = k
        /\ Len(last.out[1]) = k
        /\ \A n \in 1..k : last.out[1][n] = last.exprdat.v[pres[n]]
        /\ last.geneset_genes = <<>> => last.out = <<<<>>, 0>>

\* Three identifiers, the middle one absent, the other two in the reverse
\* of the table's order and with different entries.
C5_Witness ==
  /\ last.op = "expr_format"
  /\ x.index = <<"A", "B", "C">>
  /\ last.geneset_genes = <<"C", "D", "A">>
  /\ last.out[2] = 2 /\ Len(last.out[1]) = 2
  /\ last.out[1][1] # last.out[1][2]

\* The overlap counts of the prefixes of y of lengths 1..p, summed.
RECURSIVE PrefixOverlapSum(_, _, _)
PrefixOverlapSum(y, geneset, p) ==
  IF p = 0 THEN 0
  ELSE PrefixOverlapSum(y, geneset, p - 1)
         + Cardinality({y.index[j] : j \in 1..(IF p < Len(y.index) THEN p ELSE Len(y.index))}
                         \cap geneset)

Min(a, b) == IF a < b THEN a ELSE b
IsExample ==
  /\ last.op = "rank_biased_overlap"
  /\ last.su.index = <<"A", "D", "B", "C">>
  /\ last.gs = {"A", "B", "C"}
  /\ last.limit = 1

\* C6 (as claimed): rank_biased_overlap scores the prefixes of lengths 1 to
\* limit+1 (fewer when the gene set has fewer members); in the example
\* ({A,B,C}, [A,D,B,C], limit 1) the cumulative score is 2.
C6_LimitPlusOnePrefixes ==
  last.op = "rank_biased_overlap" =>
    /\ PyGetItem(last.out, 0) =
         FromInt(PrefixOverlapSum(last.su, last.gs,
                                  Min(Cardinality(last.gs), last.limit + 1)))
    /\ IsExample => PyGetItem(last.out, 0) = FromInt(2)

\* C6 (amended): rank_biased_overlap scores the prefixes of lengths 1 to
\* limit+2 (fewer when the gene set has fewer members): the test i > limit
\* follows the scoring of prefix i+1 and first succeeds at i = limit+1.  In
\* the example the prefixes of lengths 1, 2 and 3 are scored (1 + 1 + 2)
\* and the cumulative score is 4.
C6_LimitPlusTwoPrefixes ==
  last.op = "rank_biased_overlap" =>
    /\ PyGetItem(last.out, 0) =
         FromInt(PrefixOverlapSum(last.su, last.gs,
                                  Min(Cardinality(last.gs), last.limit + 2)))
    /\ IsExample => PyGetItem(last.out, 0) = FromInt(4)

\* The example of the claim has been scored, and the gene set has more
\* members than prefixes were scored.
C6_Witness ==
  /\ IsExample
  /\ PyGetItem(last.out, 0) = FromInt(4)

====
